---------------------------- MODULE Spec2Model ----------------------------
(***************************************************************************)
(* A model of the Nylas Node SDK entry points: the configuration call, the *)
(* request-options translator, the version compatibility checker, the      *)
(* response normalizer of NylasConnection.request and the OAuth code       *)
(* exchange.                                                               *)
(*                                                                         *)
(* JavaScript values are records [t, v]: t is the type tag and v a         *)
(* sequence of string tokens (the characters or words of a string, the     *)
(* elements of an array).  String concatenation is \o.                     *)
(***************************************************************************)
EXTENDS Integers, Sequences, FiniteSets, TLC

VARIABLES
    clientId,       \* Nylas.clientId (static field)
    clientSecret,   \* config.clientSecret
    apiServer,      \* config.apiServer
    lastConfig,     \* observation of the last Nylas.config call
    accounts,       \* which collection Nylas.accounts is
    conn,           \* the NylasConnection made last, on which requests are issued
    options,        \* the request descriptor object the caller holds
    heap,           \* the headers objects: "caller" (descriptor's), "fresh" ({} literal)
    pristine,       \* the descriptor and its headers as the caller built them
    newOptions,     \* the object returned by the last requestOptions call
    ambient,        \* what the last requestOptions call read beside its argument
    req,            \* the NylasConnection.request call in flight / completed
    xch,            \* the exchangeCodeForToken call in flight / completed
    ver             \* the last _getWarningForVersion call

vars == <<clientId, clientSecret, apiServer, lastConfig, accounts, conn, options, heap,
          pristine, newOptions, ambient, req, xch, ver>>

---------------------------------------------------------------------------
(* JavaScript values *)

Undefined == [t |-> "undefined", v |-> <<>>]
Null      == [t |-> "null", v |-> <<>>]
True      == [t |-> "boolean", v |-> <<"true">>]
False     == [t |-> "boolean", v |-> <<"false">>]
Str(s)    == [t |-> "string", v |-> s]
Arr(s)    == [t |-> "array", v |-> s]

\* x == null  (loose equality with null: null or undefined)
IsNullish(x) == x.t \in {"undefined", "null"}

\* ToBoolean(x)
Truthy(x) ==
    /\ ~IsNullish(x)
    /\ x # False
    /\ ~(x.t = "string" /\ x.v = <<>>)

\* a || b
OrElse(a, b) == IF Truthy(a) THEN a ELSE b

RECURSIVE Join(_)
\* Array.prototype.join(',') as tokens
Join(s) ==
    IF Len(s) = 0 THEN <<>>
    ELSE IF Len(s) = 1 THEN <<s[1]>>
    ELSE <<s[1], ",">> \o Join(Tail(s))

\* `${x}` : the string a template literal makes of x
ToStr(x) ==
    CASE x.t = "undefined" -> <<"undefined">>
      [] x.t = "null"      -> <<"null">>
      [] x.t = "array"     -> Join(x.v)
      [] OTHER             -> x.v

---------------------------------------------------------------------------
(* Version compatibility checker *)

SUPPORTED_API_VERSION == <<"2", ".", "1">>

DigitChars == <<"0", "1", "2", "3", "4", "5", "6", "7", "8", "9">>

IsDigit(c) == \E i \in 1..10 : DigitChars[i] = c

DigitVal(c) == (CHOOSE i \in 1..10 : DigitChars[i] = c) - 1

\* String.prototype.split('-')[0]: the text before the first '-'
RECURSIVE BeforeDash(_)
BeforeDash(s) ==
    IF Len(s) = 0 \/ Head(s) = "-" THEN <<>>
    ELSE <<Head(s)>> \o BeforeDash(Tail(s))

RECURSIVE SkipSpaces(_)
SkipSpaces(s) ==
    IF Len(s) > 0 /\ Head(s) = " " THEN SkipSpaces(Tail(s)) ELSE s

RECURSIVE DigitsValue(_, _)
\* the value of the longest run of decimal digits at the start of s, after acc
DigitsValue(s, acc) ==
    IF Len(s) > 0 /\ IsDigit(Head(s))
    THEN DigitsValue(Tail(s), 10 * acc + DigitVal(Head(s)))
    ELSE acc

\* parseInt(s): leading blanks, an optional sign, then decimal digits;
\* NaN when no digit follows.  (The 0x prefix of hexadecimal text is left
\* out: no version tried has it.)
ParseInt(s) ==
    LET t    == SkipSpaces(s)
        neg  == Len(t) > 0 /\ Head(t) = "-"
        sgn  == Len(t) > 0 /\ Head(t) \in {"-", "+"}
        d    == IF sgn THEN Tail(t) ELSE t
    IN  IF Len(d) > 0 /\ IsDigit(Head(d))
        THEN [nan |-> FALSE,
              n   |-> IF neg THEN 0 - DigitsValue(d, 0) ELSE DigitsValue(d, 0)]
        ELSE [nan |-> TRUE, n |-> 0]

\* a > b on numbers: false when either is NaN
NumGreater(a, b) == ~a.nan /\ ~b.nan /\ a.n > b.n

WarnBase(sdk, api) ==
    <<"WARNING: SDK version may not support your Nylas API version.",
      " SDK supports version ">> \o sdk \o
    <<" of the API and your application", " is currently running on version ">>
    \o api \o <<" of the API.">>

HintDashboard ==
    " Please update the version of the API that your application is using through the developer dashboard."

HintSdk == " Please update the sdk to ensure it works properly."

\* a variant that compares the two numbers the wrong way round
GetWarningForVersionSwapped(sdkApiVersion, apiVersion) ==
    IF sdkApiVersion # apiVersion
          /\ ~(IsNullish(sdkApiVersion) /\ IsNullish(apiVersion))
          /\ Truthy(sdkApiVersion) /\ Truthy(apiVersion)
    THEN LET apiNum == ParseInt(BeforeDash(apiVersion.v))
             sdkNum == ParseInt(BeforeDash(sdkApiVersion.v))
             base   == WarnBase(sdkApiVersion.v, apiVersion.v)
         IN  IF NumGreater(apiNum, sdkNum) THEN base \o <<HintDashboard>>
             ELSE IF NumGreater(sdkNum, apiNum) THEN base \o <<HintSdk>>
             ELSE base
    ELSE <<>>

\* NylasConnection._getWarningForVersion(sdkApiVersion, apiVersion)
GetWarningForVersion(sdkApiVersion, apiVersion) ==
    IF sdkApiVersion # apiVersion
          /\ ~(IsNullish(sdkApiVersion) /\ IsNullish(apiVersion))
          /\ Truthy(sdkApiVersion) /\ Truthy(apiVersion)
    THEN LET apiNum == ParseInt(BeforeDash(apiVersion.v))
             sdkNum == ParseInt(BeforeDash(sdkApiVersion.v))
             base   == WarnBase(sdkApiVersion.v, apiVersion.v)
         IN  IF NumGreater(sdkNum, apiNum) THEN base \o <<HintDashboard>>
             ELSE IF NumGreater(apiNum, sdkNum) THEN base \o <<HintSdk>>
             ELSE base
    ELSE <<>>

---------------------------------------------------------------------------
(* Configuration store and Nylas.config *)

\* 'https://api.nylas.com'
ProductionApiServer ==
    <<"https", ":", "/", "/", "api.nylas.com">>

SchemeSeparator == <<":", "/", "/">>

\* String.prototype.indexOf(sub) === -1
NotContains(s, sub) ==
    \A i \in 1..(Len(s) - Len(sub) + 1) : SubSeq(s, i, i + Len(sub) - 1) # sub

\* the process-wide settings before any configure call
InitialClientSecret == Str(<<>>)

InitialApiServer == Null

\* config.setClientSecret / config.setApiServer: plain assignments
SetClientSecret(newClientSecret) == clientSecret' = newClientSecret

SetApiServer(newApiServer) == apiServer' = newApiServer

\* a variant that looks for ':' alone
ConfigRejectsColonOnly(args) ==
    Truthy(args.apiServer) /\ NotContains(args.apiServer.v, <<":">>)

\* the guard of Nylas.config that throws
ConfigRejects(args) ==
    Truthy(args.apiServer) /\ NotContains(args.apiServer.v, SchemeSeparator)

\* Nylas.clientId after a successful Nylas.config(args)
ConfigClientId(args) == IF Truthy(args.clientId) THEN args.clientId ELSE clientId

\* config.clientSecret after a successful Nylas.config(args)
ConfigClientSecret(args) ==
    IF Truthy(args.clientSecret) THEN args.clientSecret ELSE clientSecret

\* config.apiServer after a successful Nylas.config(args)
ConfigApiServer(args) ==
    IF Truthy(args.apiServer) THEN args.apiServer ELSE Str(ProductionApiServer)

\* Nylas.clientCredentials()
ClientCredentials(id, secret) == ~IsNullish(id) /\ ~IsNullish(secret)

Store == [clientId |-> clientId, clientSecret |-> clientSecret,
          apiServer |-> apiServer]

NoConnection == [exists |-> FALSE, accessToken |-> Undefined,
                 clientId |-> Undefined]

\* new NylasConnection(accessToken, { clientId })
NewConnection(accessToken, id) ==
    [exists |-> TRUE, accessToken |-> accessToken, clientId |-> id]

\* Nylas.config({clientId, clientSecret, apiServer})
Config(args) ==
    IF ConfigRejects(args)
    THEN /\ lastConfig' = [called |-> TRUE, args |-> args, threw |-> TRUE,
                           before |-> Store]
         /\ UNCHANGED <<clientId, clientSecret, apiServer, accounts, conn>>
    ELSE /\ clientId' = ConfigClientId(args)
         /\ SetClientSecret(ConfigClientSecret(args))
         /\ SetApiServer(ConfigApiServer(args))
         /\ conn' = NewConnection(clientSecret', clientId')
         /\ accounts' = IF ClientCredentials(clientId', clientSecret')
                        THEN "management" ELSE "restful"
         /\ lastConfig' = [called |-> TRUE, args |-> args, threw |-> FALSE,
                           before |-> Store]

\* Nylas.with(accessToken)
With(accessToken) ==
    /\ Truthy(accessToken)
    /\ conn' = NewConnection(accessToken, clientId)
    /\ UNCHANGED <<clientId, clientSecret, apiServer, lastConfig, accounts>>

---------------------------------------------------------------------------
(* Request descriptor -> HTTP options translator *)

HeaderNames == {"User-Agent", "Nylas-API-Version", "Nylas-SDK-API-Version",
                "X-Nylas-Client-Id"}

\* the object literal {} used as a headers mapping
EmptyHeaders == [h \in HeaderNames |-> Undefined]

\* the object literal {} used as a request body
EmptyObject == [t |-> "object", v |-> <<>>]

\* a query mapping: Undefined stands for a key the mapping does not have
NoQs == [present |-> FALSE, expanded |-> Undefined, view |-> Undefined,
         limit |-> Undefined]

NoAuth == [present |-> FALSE, user |-> Undefined, pass |-> <<>>,
           sendImmediately |-> FALSE]

NoOptions == [exists |-> FALSE, method |-> Undefined, url |-> <<>>,
              headers |-> "none", json |-> Undefined, encoding |-> "unset",
              formData |-> Undefined, body |-> Undefined, qs |-> NoQs,
              auth |-> NoAuth]

NoDescriptor == [exists |-> FALSE, path |-> <<>>, method |-> Undefined,
                 headers |-> "none", qs |-> NoQs, json |-> Undefined,
                 downloadRequest |-> Undefined, formData |-> Undefined,
                 body |-> Undefined]

\* String.prototype.substr(0, n)
Substr0(s, n) == SubSeq(s, 1, IF Len(s) < n THEN Len(s) ELSE n)

ManagementPrefix == <<"/", "a", "/">>

\* the query of the new options: a copy of options.qs in which a truthy
\* `expanded` is removed, and replaced by view = 'expanded' when it is true
NormalizeQs(qs) ==
    IF ~qs.present THEN NoQs
    ELSE IF Truthy(qs.expanded)
         THEN [qs EXCEPT !.expanded = Undefined,
                         !.view = IF qs.expanded = True
                                  THEN Str(<<"expanded">>) ELSE qs.view]
         ELSE qs

\* a variant that falls back on the other credential
AuthUserWithFallback(path, secret, accessToken) ==
    IF Substr0(path, 3) = ManagementPrefix
    THEN OrElse(secret, accessToken)
    ELSE OrElse(accessToken, secret)

\* the `user` of requestOptions
AuthUser(path, secret, accessToken) ==
    IF Substr0(path, 3) = ManagementPrefix THEN secret ELSE accessToken

\* newOptions.auth
AuthOf(user) ==
    IF Truthy(user)
    THEN [present |-> TRUE, user |-> user, pass |-> <<>>,
          sendImmediately |-> TRUE]
    ELSE NoAuth

\* the headers object newOptions.headers refers to: options.headers || {}
HeadersRef(opts) == IF opts.headers = "none" THEN "fresh" ELSE opts.headers

UserAgent == Str(<<"Nylas Node SDK v", "SDK_VERSION">>)

\* the writes requestOptions makes through newOptions.headers
InjectHeaders(hdrs, connClientId) ==
    [hdrs EXCEPT
        !["User-Agent"] = IF IsNullish(@) THEN UserAgent ELSE @,
        !["Nylas-API-Version"] = Str(SUPPORTED_API_VERSION),
        !["Nylas-SDK-API-Version"] = Str(SUPPORTED_API_VERSION),
        !["X-Nylas-Client-Id"] = connClientId]

\* the heap after requestOptions(opts): the {} literal is a new object, and
\* the header writes go to whichever object newOptions.headers refers to
HeapAfterRequestOptions(opts, h, connection) ==
    LET start == [h EXCEPT !["fresh"] = EmptyHeaders]
        ref   == HeadersRef(opts)
    IN  [start EXCEPT ![ref] = InjectHeaders(start[ref], connection.clientId)]

\* NylasConnection.requestOptions(options): the object it returns
RequestOptions(opts, connection, secret, server) ==
    [exists   |-> TRUE,
     method   |-> OrElse(opts.method, Str(<<"GET">>)),
     url      |-> ToStr(server) \o opts.path,
     headers  |-> HeadersRef(opts),
     json     |-> IF IsNullish(opts.json) THEN True ELSE opts.json,
     encoding |-> IF Truthy(opts.downloadRequest) THEN "null" ELSE "unset",
     formData |-> IF Truthy(opts.formData) THEN opts.formData ELSE Undefined,
     body     |-> IF Truthy(opts.formData) THEN Undefined
                  ELSE OrElse(opts.body, EmptyObject),
     qs       |-> NormalizeQs(opts.qs),
     auth     |-> AuthOf(AuthUser(opts.path, secret, connection.accessToken))]

NoAmbient == [clientSecret |-> Undefined, accessToken |-> Undefined,
              clientId |-> Undefined, apiServer |-> Undefined]

\* the configuration and connection fields requestOptions reads
Ambient == [clientSecret |-> clientSecret, accessToken |-> conn.accessToken,
            clientId |-> conn.clientId, apiServer |-> apiServer]

\* the caller builds a request descriptor (and, when it has headers, their
\* mapping)
BuildDescriptor(d, hdrs) ==
    /\ options' = d
    /\ heap' = [caller |-> hdrs, fresh |-> EmptyHeaders]
    /\ pristine' = [options |-> d, headers |-> hdrs]
    /\ newOptions' = NoOptions
    /\ ambient' = NoAmbient

\* connection.requestOptions(options) on the descriptor the caller holds
CallRequestOptions ==
    /\ conn.exists
    /\ options.exists
    /\ newOptions' = RequestOptions(options, conn, clientSecret, apiServer)
    /\ heap' = HeapAfterRequestOptions(options, heap, conn)
    /\ ambient' = Ambient
    /\ UNCHANGED <<options, pristine>>

---------------------------------------------------------------------------
(* Response bodies and JSON.parse *)

BodyFields == {"message", "missing_fields", "server_error", "access_token",
               "foo"}

NoFields == [k \in BodyFields |-> Undefined]

\* a body is undefined, null, an object with some of BodyFields, or a string
\* holding the text of the response (as tokens)
UndefinedBody == [t |-> "undefined", f |-> NoFields, text |-> <<>>]

NullBody == [t |-> "null", f |-> NoFields, text |-> <<>>]

Obj(f) == [t |-> "object", f |-> f, text |-> <<>>]

Text(toks) == [t |-> "string", f |-> NoFields, text |-> toks]

Punctuation == {"{", "}", "[", "]", ":", ","}

RECURSIVE ParseElements(_, _)
\* the elements of an array from its tokens after '[': the value read and
\* the tokens left after ']', or ok = FALSE
ParseElements(toks, acc) ==
    IF Len(toks) < 2 \/ toks[1] \in Punctuation
    THEN [ok |-> FALSE, value |-> Undefined, rest |-> <<>>]
    ELSE IF toks[2] = "]"
         THEN [ok |-> TRUE, value |-> Arr(Append(acc, toks[1])),
               rest |-> SubSeq(toks, 3, Len(toks))]
    ELSE IF toks[2] = ","
         THEN ParseElements(SubSeq(toks, 3, Len(toks)), Append(acc, toks[1]))
    ELSE [ok |-> FALSE, value |-> Undefined, rest |-> <<>>]

\* one JSON value at the start of toks: a string or an array of strings
ParseValue(toks) ==
    IF Len(toks) = 0 THEN [ok |-> FALSE, value |-> Undefined, rest |-> <<>>]
    ELSE IF toks[1] = "["
         THEN IF Len(toks) >= 2 /\ toks[2] = "]"
              THEN [ok |-> TRUE, value |-> Arr(<<>>),
                    rest |-> SubSeq(toks, 3, Len(toks))]
              ELSE ParseElements(Tail(toks), <<>>)
    ELSE IF toks[1] \in Punctuation
         THEN [ok |-> FALSE, value |-> Undefined, rest |-> <<>>]
    ELSE [ok |-> TRUE, value |-> Str(<<toks[1]>>), rest |-> Tail(toks)]

RECURSIVE ParseMembers(_, _)
\* the members of an object from its tokens after '{' (or after ',')
ParseMembers(toks, f) ==
    IF Len(toks) < 4 \/ toks[1] \notin BodyFields \/ toks[2] # ":"
    THEN [ok |-> FALSE, body |-> NullBody]
    ELSE LET val == ParseValue(SubSeq(toks, 3, Len(toks)))
             g   == [f EXCEPT ![toks[1]] = val.value]
         IN  IF ~val.ok \/ Len(val.rest) = 0
             THEN [ok |-> FALSE, body |-> NullBody]
             ELSE IF val.rest = <<"}">> THEN [ok |-> TRUE, body |-> Obj(g)]
             ELSE IF val.rest[1] = ","  THEN ParseMembers(Tail(val.rest), g)
             ELSE [ok |-> FALSE, body |-> NullBody]

\* JSON.parse on the text of a string: ok = FALSE is a SyntaxError
ParseText(toks) ==
    IF toks = <<"null">> THEN [ok |-> TRUE, body |-> NullBody]
    ELSE IF toks = <<"{", "}">> THEN [ok |-> TRUE, body |-> Obj(NoFields)]
    ELSE IF Len(toks) > 0 /\ toks[1] = "{" THEN ParseMembers(Tail(toks), NoFields)
    ELSE [ok |-> FALSE, body |-> NullBody]

\* JSON.parse(body): its argument is first converted to a string, so null
\* reads as 'null' and an object as '[object Object]'
JsonParse(body) ==
    CASE body.t = "string" -> ParseText(body.text)
      [] body.t = "null"   -> ParseText(<<"null">>)
      [] OTHER             -> ParseText(<<"[object Object]">>)

\* body[k]: a string has none of these properties
Get(body, k) == IF body.t = "object" THEN body.f[k] ELSE Undefined

\* !body
BodyFalsy(body) ==
    \/ body.t \in {"undefined", "null"}
    \/ body.t = "string" /\ body.text = <<>>

---------------------------------------------------------------------------
(* NylasConnection.request *)

\* the largest status code that counts as success
OkStatusMax == 299

\* an Error object; statusCode 0 stands for an error without the property
NoError == [present |-> FALSE, message |-> <<>>, statusCode |-> 0]

NewError(message) == [present |-> TRUE, message |-> message, statusCode |-> 0]

\* new Error(x).message: '' for undefined, String(x) otherwise
ErrorMessageOf(x) == IF x.t = "undefined" THEN <<>> ELSE ToStr(x)

NoResponse == [present |-> FALSE, statusCode |-> 0, apiVersion |-> Undefined]

Response(status, apiVersion) ==
    [present |-> TRUE, statusCode |-> status, apiVersion |-> apiVersion]

IdleReq == [pc |-> "idle", json |-> Undefined, download |-> Undefined,
            cb |-> FALSE, error |-> NoError, response |-> NoResponse,
            body |-> UndefinedBody, promise |-> "pending",
            value |-> UndefinedBody, valueResponse |-> NoResponse,
            reason |-> NoError, settles |-> 0, threw |-> "none",
            cbCalls |-> 0, warning |-> <<>>]

\* resolve(body) / resolve(response): only the first settlement counts
Resolve(r, body, response) ==
    IF r.promise = "pending"
    THEN [r EXCEPT !.promise = "resolved", !.value = body,
                   !.valueResponse = response, !.settles = @ + 1]
    ELSE [r EXCEPT !.settles = @ + 1]

\* reject(error)
Reject(r, error) ==
    IF r.promise = "pending"
    THEN [r EXCEPT !.promise = "rejected", !.reason = error, !.settles = @ + 1]
    ELSE [r EXCEPT !.settles = @ + 1]

\* an exception leaves the transport callback: nothing settles the promise
Throw(r, name) == [r EXCEPT !.threw = name]

\* the error rejected when the transport error is present or the status is
\* above OkStatusMax
FailureError(error, response, body) ==
    LET e0 == IF error.present THEN error
              ELSE NewError(ErrorMessageOf(Get(body, "message")))
        e1 == IF Truthy(Get(body, "missing_fields"))
              THEN [e0 EXCEPT !.message =
                       ToStr(Get(body, "message")) \o <<": ">>
                       \o ToStr(Get(body, "missing_fields"))]
              ELSE e0
        e2 == IF Truthy(Get(body, "server_error"))
              THEN [e1 EXCEPT !.message =
                       @ \o <<" (Server Error:\n">>
                       \o ToStr(Get(body, "server_error")) \o <<"\n)">>]
              ELSE e1
    IN  IF response.statusCode # 0
        THEN [e2 EXCEPT !.statusCode = response.statusCode]
        ELSE e2

\* the part of the transport callback after the body is read
Normalize(r, error, response, body) ==
    IF error.present \/ response.statusCode > OkStatusMax
    THEN IF body.t = "null"
         THEN Throw(r, "TypeError")
         ELSE Reject(r, FailureError(error, response, body))
    ELSE IF Truthy(r.download)
         THEN Resolve(r, UndefinedBody, response)
         ELSE Resolve(r, body, NoResponse)

\* the transport callback (error, response, body = {}) of request
OnResponse(r, error, response, bodyIn) ==
    LET body0   == IF bodyIn.t = "undefined" THEN Obj(NoFields) ELSE bodyIn
        r0      == [r EXCEPT !.pc = "done", !.error = error,
                             !.response = response, !.body = bodyIn]
        warning == GetWarningForVersion(Str(SUPPORTED_API_VERSION),
                                        response.apiVersion)
        r1      == [r0 EXCEPT !.warning = warning]
        parsed  == JsonParse(body0)
    IN  IF ~response.present
        THEN Reject(r0, IF error.present THEN error
                        ELSE NewError(<<"No response">>))
        ELSE IF r.json = False
             THEN IF parsed.ok
                  THEN Normalize(r1, error, response, parsed.body)
                  ELSE Throw(r1, "SyntaxError")
             ELSE Normalize(r1, error, response, body0)

\* connection.request(options): translate the descriptor and hand the
\* options to the transport.  One request is followed at a time: calls are
\* independent of each other.  cb: the caller passed a completion callback
\* as a second argument (request takes one parameter and never reads it).
Request(d, hdrs, cb) ==
    /\ conn.exists
    /\ req.pc # "pending"
    /\ options' = d
    /\ pristine' = [options |-> d, headers |-> hdrs]
    /\ newOptions' = RequestOptions(d, conn, clientSecret, apiServer)
    /\ heap' = HeapAfterRequestOptions(
                   d, [caller |-> hdrs, fresh |-> EmptyHeaders], conn)
    /\ ambient' = Ambient
    /\ req' = [IdleReq EXCEPT !.pc = "pending", !.json = newOptions'.json,
                              !.download = d.downloadRequest, !.cb = cb]

\* the transport completes the request in flight
CompleteRequest(error, response, body) ==
    /\ req.pc = "pending"
    /\ req' = OnResponse(req, error, response, body)
    /\ UNCHANGED <<options, pristine, newOptions, heap, ambient>>

---------------------------------------------------------------------------
(* Nylas.exchangeCodeForToken *)

NoAccessTokenMessage == <<"No access token in response">>

\* the arguments of a callback invocation: how many, the error (NoError for
\* null) and the token (Undefined when not passed)
NoArgs == [n |-> 0, error |-> NoError, token |-> Undefined]

IdleXch == [pc |-> "idle", cb |-> FALSE, error |-> NoError,
            body |-> UndefinedBody, promise |-> "pending",
            value |-> Undefined, reason |-> NoError, settles |-> 0,
            cbCalls |-> 0, cbArgs |-> NoArgs, cbSawSettled |-> FALSE]

\* a variant that lets a body without token override the transport error
ExchangeErrorFromBody(error, body) ==
    IF BodyFalsy(body) \/ ~Truthy(Get(body, "access_token"))
    THEN NewError(IF ~BodyFalsy(body) /\ Truthy(Get(body, "message"))
                  THEN ToStr(Get(body, "message"))
                  ELSE NoAccessTokenMessage)
    ELSE error

\* the error the token callback ends up with (NoError: none)
ExchangeError(error, body) ==
    IF BodyFalsy(body) \/ ~Truthy(Get(body, "access_token"))
    THEN IF error.present THEN error
         ELSE NewError(IF ~BodyFalsy(body) /\ Truthy(Get(body, "message"))
                       THEN ToStr(Get(body, "message"))
                       ELSE NoAccessTokenMessage)
    ELSE error

\* callback(...args), when the caller gave one: the arguments it receives
\* and whether the promise was already settled
Notify(x, args) ==
    IF x.cb
    THEN [x EXCEPT !.cbCalls = @ + 1, !.cbArgs = args,
                   !.cbSawSettled = (x.promise # "pending")]
    ELSE x

\* a variant that notifies the callback before settling the promise
OnTokenResponseNotifyFirst(x, error, body) ==
    LET x0 == Notify([x EXCEPT !.pc = "done", !.error = error, !.body = body],
                     IF ExchangeError(error, body).present
                     THEN [n |-> 1, error |-> ExchangeError(error, body),
                           token |-> Undefined]
                     ELSE [n |-> 2, error |-> NoError,
                           token |-> Get(body, "access_token")])
        e  == ExchangeError(error, body)
    IN  IF e.present
        THEN [x0 EXCEPT !.promise = "rejected", !.reason = e, !.settles = @ + 1]
        ELSE [x0 EXCEPT !.promise = "resolved",
                        !.value = Get(body, "access_token"), !.settles = @ + 1]

\* the transport callback (error, response, body) of exchangeCodeForToken
OnTokenResponse(x, error, body) ==
    LET x0 == [x EXCEPT !.pc = "done", !.error = error, !.body = body]
        e  == ExchangeError(error, body)
    IN  IF e.present
        THEN Notify([x0 EXCEPT !.promise = "rejected", !.reason = e,
                               !.settles = @ + 1],
                    [n |-> 1, error |-> e, token |-> Undefined])
        ELSE Notify([x0 EXCEPT !.promise = "resolved",
                               !.value = Get(body, "access_token"),
                               !.settles = @ + 1],
                    [n |-> 2, error |-> NoError,
                     token |-> Get(body, "access_token")])

\* Nylas.exchangeCodeForToken(code, callback): throws unless a client id, a
\* client secret and a code are there
ExchangeCodeForToken(code, cb) ==
    /\ Truthy(clientId) /\ Truthy(clientSecret)
    /\ Truthy(code)
    /\ xch.pc # "pending"
    /\ xch' = [IdleXch EXCEPT !.pc = "pending", !.cb = cb]

\* the transport completes the token request in flight
CompleteExchange(error, body) ==
    /\ xch.pc = "pending"
    /\ xch' = OnTokenResponse(xch, error, body)

\* the last _getWarningForVersion(sdkApiVersion, apiVersion) call
NoVersionCall == [called |-> FALSE, sdk |-> Undefined, api |-> Undefined,
                  warning |-> <<>>]

CheckVersion(sdk, api) ==
    ver' = [called |-> TRUE, sdk |-> sdk, api |-> api,
            warning |-> GetWarningForVersion(sdk, api)]

---------------------------------------------------------------------------
(* Inputs *)

\* the largest major version number among the version strings tried
MaxMajor == 3

Digit(n) == DigitChars[n + 1]

Minors == {1, 5}

Dotted(a, b) == <<Digit(a), ".", Digit(b)>>

VersionStrings ==
    {Dotted(a, b) : a \in 1..MaxMajor, b \in Minors}
    \cup {Dotted(a, b) \o <<"-", "beta">> : a \in 1..MaxMajor, b \in Minors}
    \cup {<<Digit(a)>> : a \in 1..MaxMajor}
    \cup {<<"v", Digit(a)>> : a \in 1..MaxMajor}
    \cup {<<"-", Digit(a)>> : a \in 1..MaxMajor}
    \cup {<<"1", "0">>, <<>>}

Versions == {Str(s) : s \in VersionStrings} \cup {Undefined}

Ids == {Undefined, Str(<<>>), Str(<<"id1">>), Str(<<"id2">>)}

Secrets == {Undefined, Str(<<>>), Str(<<"s1">>), Str(<<"s2">>)}

ApiServers ==
    {Undefined, Str(<<>>), Str(<<"api.example.com">>),
     Str(<<"mailto", ":", "/", "x">>),
     Str(<<"https", ":", "/", "/", "api.example.com">>),
     Str(<<"http", ":", "/", "/", "localhost">>)}

ConfigArgs == [clientId : Ids, clientSecret : Secrets, apiServer : ApiServers]

\* the configure calls tried beside the request operations
FewConfigArgs ==
    {[clientId |-> Str(<<"id1">>), clientSecret |-> Str(<<"s1">>),
      apiServer |-> Undefined]}

Tokens == {Str(<<>>), Str(<<"tok">>)}

Paths == {<<"/", "a", "/", "app">>, <<"/", "t", "h", "reads">>, <<"/", "a">>}

QueryMappings ==
    {NoQs}
    \cup [present : {TRUE},
          expanded : {Undefined, True, False, Str(<<"yes">>)},
          view : {Undefined, Str(<<"count">>)},
          limit : {Str(<<"5">>)}]

CallerHeaders ==
    {EmptyHeaders,
     [EmptyHeaders EXCEPT !["User-Agent"] = Str(<<"custom">>)],
     [EmptyHeaders EXCEPT !["Nylas-API-Version"] = Str(<<"1", ".", "0">>)]}

Payloads == {[formData |-> Undefined, body |-> Undefined],
             [formData |-> Undefined, body |-> Str(<<"payload">>)],
             [formData |-> Str(<<"form">>), body |-> Str(<<"payload">>)]}

Descriptor(path, method, headers, qs, json, download, payload) ==
    [exists |-> TRUE, path |-> path, method |-> method, headers |-> headers,
     qs |-> qs, json |-> json, downloadRequest |-> download,
     formData |-> payload.formData, body |-> payload.body]

\* every path, headers and query together, and every method, json,
\* downloadRequest and payload together
Descriptors ==
    {Descriptor(p, Undefined, h, q, Undefined, Undefined,
                [formData |-> Undefined, body |-> Undefined]) :
        p \in Paths, h \in {"none", "caller"}, q \in QueryMappings}
    \cup
    {Descriptor(<<"/", "t", "h", "reads">>, m, "none", NoQs, j, d, b) :
        m \in {Undefined, Str(<<"PUT">>)}, j \in {Undefined, True, False},
        d \in {Undefined, True}, b \in Payloads}

\* the descriptors tried with request: they differ in json and downloadRequest
RequestDescriptors ==
    {Descriptor(<<"/", "t", "h", "reads">>, Undefined, "none", NoQs, j, d,
                [formData |-> Undefined, body |-> Undefined]) :
        j \in {Undefined, True, False}, d \in {Undefined, True}}

TransportErrors == {NoError, NewError(<<"ETIMEDOUT">>)}

Statuses == {200, OkStatusMax, OkStatusMax + 1, 404}

Responses ==
    {NoResponse}
    \cup {Response(st, v) : st \in Statuses,
                            v \in {Undefined, Str(<<"3", ".", "1">>)}}

Fields(m, mf, se, at, foo) ==
    [k \in BodyFields |->
        CASE k = "message"        -> m
          [] k = "missing_fields" -> mf
          [] k = "server_error"   -> se
          [] k = "access_token"   -> at
          [] OTHER                -> foo]

ResponseBodies ==
    {UndefinedBody, NullBody}
    \cup {Obj(Fields(m, mf, se, Undefined, Undefined)) :
            m \in {Undefined, Str(<<"not found">>)},
            mf \in {Undefined, Arr(<<"x">>)},
            se \in {Undefined, Str(<<"boom">>)}}
    \cup {Obj(Fields(Undefined, Undefined, Undefined, Undefined, Str(<<"1">>)))}
    \cup {Text(<<"<html>">>), Text(<<"null">>), Text(<<"{", "}">>),
          Text(<<"{", "message", ":", "not found", ",", "missing_fields", ":",
                 "[", "x", ",", "y", "]", "}">>),
          Text(<<"{", "message", ":", "not found">>)}

TokenBodies ==
    {UndefinedBody, NullBody, Text(<<>>), Text(<<"<html>">>)}
    \cup {Obj(Fields(m, Undefined, Undefined, at, Undefined)) :
            m \in {Undefined, Str(<<>>), Str(<<"bad code">>)},
            at \in {Undefined, Str(<<>>), Str(<<"tok">>)}}

\* the completions tried for request beside the code exchange
FewResponses == {NoResponse, Response(200, Undefined), Response(404, Undefined)}

FewBodies == {UndefinedBody, NullBody,
              Obj(Fields(Str(<<"not found">>), Undefined, Undefined, Undefined,
                         Undefined))}

---------------------------------------------------------------------------
(* Specifications *)

storeVars == <<clientId, clientSecret, apiServer, lastConfig, accounts, conn>>

descVars == <<options, heap, pristine, newOptions, ambient>>

NoConfigCall == [called |-> FALSE,
                 args |-> [clientId |-> Undefined, clientSecret |-> Undefined,
                           apiServer |-> Undefined],
                 threw |-> FALSE,
                 before |-> [clientId |-> Str(<<>>),
                             clientSecret |-> InitialClientSecret,
                             apiServer |-> InitialApiServer]]

Init ==
    /\ clientId = Str(<<>>)
    /\ clientSecret = InitialClientSecret
    /\ apiServer = InitialApiServer
    /\ lastConfig = NoConfigCall
    /\ accounts = "unset"
    /\ conn = NoConnection
    /\ options = NoDescriptor
    /\ heap = [caller |-> EmptyHeaders, fresh |-> EmptyHeaders]
    /\ pristine = [options |-> NoDescriptor, headers |-> EmptyHeaders]
    /\ newOptions = NoOptions
    /\ ambient = NoAmbient
    /\ req = IdleReq
    /\ xch = IdleXch
    /\ ver = NoVersionCall

\* the translator, on connections made by config and with
Next ==
    \/ \E a \in FewConfigArgs : Config(a) /\ UNCHANGED <<descVars, req, xch, ver>>
    \/ \E t \in Tokens : With(t) /\ UNCHANGED <<descVars, req, xch, ver>>
    \/ \E d \in Descriptors, h \in CallerHeaders :
          /\ d.headers = "none" => h = EmptyHeaders
          /\ BuildDescriptor(d, h)
          /\ UNCHANGED <<storeVars, req, xch, ver>>
    \/ CallRequestOptions /\ UNCHANGED <<storeVars, req, xch, ver>>

Spec == Init /\ [][Next]_vars

\* sequences of configure calls
NextConfig ==
    \/ \E a \in ConfigArgs : Config(a) /\ UNCHANGED <<descVars, req, xch, ver>>
    \/ \E t \in Tokens : With(t) /\ UNCHANGED <<descVars, req, xch, ver>>

SpecConfig == Init /\ [][NextConfig]_vars

\* requests and their completions
NextRequest ==
    \/ \E a \in FewConfigArgs : Config(a) /\ UNCHANGED <<descVars, req, xch, ver>>
    \/ \E t \in Tokens : With(t) /\ UNCHANGED <<descVars, req, xch, ver>>
    \/ \E d \in RequestDescriptors, cb \in BOOLEAN :
          Request(d, EmptyHeaders, cb) /\ UNCHANGED <<storeVars, xch, ver>>
    \/ \E e \in TransportErrors, r \in Responses, b \in ResponseBodies :
          CompleteRequest(e, r, b) /\ UNCHANGED <<storeVars, xch, ver>>

SpecRequest == Init /\ [][NextRequest]_vars

\* the two operations that take a completion callback in the description
NextExchange ==
    \/ \E a \in FewConfigArgs : Config(a) /\ UNCHANGED <<descVars, req, xch, ver>>
    \/ \E d \in RequestDescriptors, cb \in BOOLEAN :
          Request(d, EmptyHeaders, cb) /\ UNCHANGED <<storeVars, xch, ver>>
    \/ \E e \in TransportErrors, r \in FewResponses, b \in FewBodies :
          CompleteRequest(e, r, b) /\ UNCHANGED <<storeVars, xch, ver>>
    \/ \E code \in Tokens, cb \in BOOLEAN :
          ExchangeCodeForToken(code, cb)
          /\ UNCHANGED <<storeVars, descVars, req, ver>>
    \/ \E e \in TransportErrors, b \in TokenBodies :
          CompleteExchange(e, b) /\ UNCHANGED <<storeVars, descVars, req, ver>>

SpecExchange == Init /\ [][NextExchange]_vars

\* the version checker on pairs of versions
NextVersion ==
    \E sdk \in Versions, api \in Versions :
        CheckVersion(sdk, api)
        /\ UNCHANGED <<storeVars, descVars, req, xch>>

SpecVersion == Init /\ [][NextVersion]_vars

---------------------------------------------------------------------------
(* Properties: the version checker *)

Range(s) == {s[i] : i \in DOMAIN s}

\* sub occurs in s as a run of consecutive tokens
Occurs(sub, s) ==
    \E i \in 1..(Len(s) - Len(sub) + 1) : SubSeq(s, i, i + Len(sub) - 1) = sub

\* a string with at least one character
NonEmptyString(x) == x.t = "string" /\ Len(x.v) > 0

\* the text of s before its first '-'
TextBeforeDash(s) ==
    LET dashes == {i \in 1..Len(s) : s[i] = "-"}
    IN  IF dashes = {} THEN s
        ELSE SubSeq(s, 1, (CHOOSE i \in dashes : \A j \in dashes : i <= j) - 1)

\* how many decimal digits s starts with
LeadingDigits(s) ==
    CHOOSE k \in 0..Len(s) :
        /\ \A i \in 1..k : IsDigit(s[i])
        /\ k < Len(s) => ~IsDigit(s[k + 1])

\* the number those digits write
LeadingValue(s) ==
    LET n == LeadingDigits(s)
        val[k \in 0..n] == IF k = 0 THEN 0 ELSE 10 * val[k - 1] + DigitVal(s[k])
    IN  val[n]

HasLeadingInteger(x) == LeadingDigits(TextBeforeDash(x.v)) > 0

LeadingInteger(x) == LeadingValue(TextBeforeDash(x.v))

\* the hints a warning carries are decided by the two leading integers
HintsFollowLeadingIntegers(sdk, api, warning) ==
    LET both == HasLeadingInteger(sdk) /\ HasLeadingInteger(api)
    IN  /\ HintDashboard \in Range(warning)
            <=> (both /\ LeadingInteger(sdk) > LeadingInteger(api))
        /\ HintSdk \in Range(warning)
            <=> (both /\ LeadingInteger(api) > LeadingInteger(sdk))

\* C7, as stated: _getWarningForVersion returns '' when the two versions are
\* equal or the server version is absent; otherwise it returns a non-empty
\* warning that embeds both versions, with the dashboard hint iff the SDK's
\* leading integer exceeds the server's, the sdk hint iff the server's
\* exceeds the SDK's, and no hint otherwise.
C7_AsStated ==
    ver.called =>
        IF ver.sdk = ver.api \/ IsNullish(ver.api)
        THEN ver.warning = <<>>
        ELSE /\ ver.warning # <<>>
             /\ Occurs(ToStr(ver.sdk), ver.warning)
             /\ Occurs(ToStr(ver.api), ver.warning)
             /\ HintsFollowLeadingIntegers(ver.sdk, ver.api, ver.warning)

\* C7, amended: _getWarningForVersion returns '' when the two versions are
\* equal or when either version is absent or the empty string; otherwise it
\* returns a non-empty warning that embeds both versions, with the dashboard
\* hint iff the SDK's leading integer exceeds the server's, the sdk hint iff
\* the server's exceeds the SDK's, and no hint when the integers are equal
\* or either fails to parse.
C7_WarningForVersion ==
    ver.called =>
        IF ver.sdk = ver.api \/ ~NonEmptyString(ver.sdk) \/ ~NonEmptyString(ver.api)
        THEN ver.warning = <<>>
        ELSE /\ ver.warning # <<>>
             /\ Occurs(ver.sdk.v, ver.warning)
             /\ Occurs(ver.api.v, ver.warning)
             /\ HintsFollowLeadingIntegers(ver.sdk, ver.api, ver.warning)

\* the SDK at 2.1 against a server at 1.5: the dashboard hint
C7_Witness ==
    /\ ver.called
    /\ ver.sdk = Str(<<"2", ".", "1">>)
    /\ ver.api = Str(<<"1", ".", "5">>)
    /\ HintDashboard \in Range(ver.warning)
    /\ HintSdk \notin Range(ver.warning)

---------------------------------------------------------------------------
(* Properties: Nylas.config *)

HasSchemeSeparator(s) ==
    \E i \in 1..(Len(s) - 2) : s[i] = ":" /\ s[i + 1] = "/" /\ s[i + 2] = "/"

\* C5, as stated: a configure call whose apiServer is supplied without '://'
\* throws and leaves the store unchanged; every other call succeeds and the
\* store then holds exactly that call's clientId, clientSecret and apiServer
\* (the production URL when apiServer is omitted), so the stored apiServer
\* contains '://'.
C5_AsStated ==
    lastConfig.called =>
        LET a == lastConfig.args
        IN  IF ~IsNullish(a.apiServer) /\ ~HasSchemeSeparator(a.apiServer.v)
            THEN lastConfig.threw /\ Store = lastConfig.before
            ELSE /\ ~lastConfig.threw
                 /\ clientId = a.clientId
                 /\ clientSecret = a.clientSecret
                 /\ apiServer = IF IsNullish(a.apiServer)
                                THEN Str(ProductionApiServer) ELSE a.apiServer
                 /\ HasSchemeSeparator(apiServer.v)

\* C5, amended: a configure call whose apiServer is a non-empty string
\* without '://' throws and leaves the stored clientId, clientSecret and
\* apiServer unchanged; every other call succeeds, and afterwards the stored
\* clientId and clientSecret are that call's when it gives a non-empty
\* string and are otherwise left as they were, and the stored apiServer is
\* that call's, or 'https://api.nylas.com' when apiServer is omitted or
\* empty, so the stored apiServer contains '://' after a successful
\* configure.
C5_Config ==
    lastConfig.called =>
        LET a == lastConfig.args
            b == lastConfig.before
        IN  IF NonEmptyString(a.apiServer) /\ ~HasSchemeSeparator(a.apiServer.v)
            THEN lastConfig.threw /\ Store = b
            ELSE /\ ~lastConfig.threw
                 /\ clientId = IF NonEmptyString(a.clientId)
                               THEN a.clientId ELSE b.clientId
                 /\ clientSecret = IF NonEmptyString(a.clientSecret)
                                   THEN a.clientSecret ELSE b.clientSecret
                 /\ apiServer = IF NonEmptyString(a.apiServer)
                                THEN a.apiServer ELSE Str(ProductionApiServer)
                 /\ HasSchemeSeparator(apiServer.v)

\* a second configure call that names its own server and no client id
C5_Witness ==
    /\ lastConfig.called /\ ~lastConfig.threw
    /\ lastConfig.before.apiServer = Str(ProductionApiServer)
    /\ lastConfig.before.clientId = Str(<<"id1">>)
    /\ lastConfig.args.clientId = Undefined
    /\ lastConfig.args.clientSecret = Str(<<"s2">>)
    /\ lastConfig.args.apiServer
          = Str(<<"https", ":", "/", "/", "api.example.com">>)
    /\ Store = [clientId |-> Str(<<"id1">>), clientSecret |-> Str(<<"s2">>),
                apiServer |-> lastConfig.args.apiServer]

---------------------------------------------------------------------------
(* Properties: requestOptions *)

\* the path begins with the three characters '/a/'
IsManagementPath(path) ==
    Len(path) >= 3 /\ path[1] = "/" /\ path[2] = "a" /\ path[3] = "/"

\* C2, as stated: for a path beginning with '/a/' the auth principal is the
\* configured client secret whatever the access token; otherwise, with an
\* access token present, the principal is that token; and auth is omitted
\* only when neither credential is present.
C2_AsStated ==
    newOptions.exists =>
        /\ IsManagementPath(options.path) /\ newOptions.auth.present
              => newOptions.auth.user = ambient.clientSecret
        /\ ~IsManagementPath(options.path) /\ NonEmptyString(ambient.accessToken)
              => /\ newOptions.auth.present
                 /\ newOptions.auth.user = ambient.accessToken
        /\ ~newOptions.auth.present
              => /\ ~NonEmptyString(ambient.clientSecret)
                 /\ ~NonEmptyString(ambient.accessToken)

\* C2, amended: for a path beginning with '/a/' the credential is the
\* configured client secret whatever the access token, and for any other
\* path it is the connection's access token; the output carries auth, with
\* that credential as its principal, exactly when that credential is
\* present and not empty, and otherwise omits auth (the other credential
\* is never used in its place); building the options never fails for lack of
\* a credential.
C2_AuthPrincipal ==
    newOptions.exists =>
        LET credential == IF IsManagementPath(options.path)
                          THEN ambient.clientSecret ELSE ambient.accessToken
        IN  IF NonEmptyString(credential)
            THEN /\ newOptions.auth.present
                 /\ newOptions.auth.user = credential
            ELSE ~newOptions.auth.present

\* a management path on a connection that holds an access token: the
\* principal is the client secret
C2_Witness ==
    /\ newOptions.exists
    /\ IsManagementPath(options.path)
    /\ ambient.accessToken = Str(<<"tok">>)
    /\ ambient.clientSecret = Str(<<"s1">>)
    /\ newOptions.auth.present
    /\ newOptions.auth.user = Str(<<"s1">>)

\* C6: for a query mapping with an 'expanded' key, the output query has no
\* 'expanded' key whatever its value was, has view = 'expanded' when the
\* value was true, and otherwise has the view the caller gave (none added).
C6_ExpandedRemoved ==
    newOptions.exists /\ options.qs.present /\ options.qs.expanded # Undefined
        => /\ newOptions.qs.present
           /\ newOptions.qs.expanded = Undefined
           /\ newOptions.qs.view = IF options.qs.expanded = True
                                   THEN Str(<<"expanded">>) ELSE options.qs.view

\* C9: requestOptions leaves the descriptor as the caller built it, its
\* headers mapping and its query mapping included; the injected headers are
\* in the new options object only.
C9_DescriptorUntouched ==
    newOptions.exists =>
        /\ options = pristine.options
        /\ options.headers = "caller" => heap["caller"] = pristine.headers

---------------------------------------------------------------------------
(* Properties: NylasConnection.request *)

\* the body the normalizer inspects: {} for an absent body, and the parsed
\* text when the descriptor's json flag is false
InspectedBody(r) ==
    LET given == IF r.body.t = "undefined" THEN Obj(NoFields) ELSE r.body
    IN  IF r.json = False THEN JsonParse(given).body ELSE given

\* a response came, no transport error, and the status is at most 299
Succeeded(r) ==
    r.response.present /\ ~r.error.present /\ r.response.statusCode <= 299

\* C1: a completed request resolves exactly when a response was received
\* with no transport error and a status of at most 299, with the parsed
\* body, or with the response when downloadRequest is set; in every other
\* case it rejects; it is never both resolved and rejected.
C1_ResolveIffSuccess ==
    req.pc = "done" =>
        /\ req.promise = "resolved" <=> Succeeded(req)
        /\ ~Succeeded(req) => req.promise = "rejected"
        /\ req.promise = "resolved" =>
              IF Truthy(req.download)
              THEN req.valueResponse = req.response
              ELSE req.value = InspectedBody(req)
        /\ req.settles <= 1

\* C3: a request rejected after a response was received carries the base
\* message (the transport error's message if there is one, else the body's
\* message) followed by ': <missing_fields>' when the body has
\* missing_fields, and carries the response's status code.  Stated for the
\* bodies without server_error, whose suffix is a separate rule.
C3_RejectionMessage ==
    req.pc = "done" /\ req.promise = "rejected" /\ req.response.present
    /\ Get(InspectedBody(req), "server_error") = Undefined
        => LET body == InspectedBody(req)
               base == IF req.error.present THEN req.error.message
                       ELSE IF Get(body, "message") = Undefined THEN <<>>
                       ELSE Get(body, "message").v
               missing == Get(body, "missing_fields")
           IN  /\ req.reason.message =
                     IF missing = Undefined THEN base
                     ELSE base \o <<": ">> \o Join(missing.v)
               /\ req.reason.statusCode = req.response.statusCode

\* C10: once the transport callback has run, the promise is settled, and
\* settled once: no exception leaves the callback, and a body that cannot be
\* parsed when the json flag is false rejects the promise.
C10_AlwaysSettles ==
    req.pc = "done" =>
        /\ req.promise # "pending"
        /\ req.settles = 1
        /\ req.threw = "none"

---------------------------------------------------------------------------
(* Properties: exchangeCodeForToken and the completion callbacks *)

\* C4, as stated: the token request resolves with the body's access_token
\* whenever the body has an access_token field, and otherwise rejects with
\* the body's message if present, else 'No access token in response'; it
\* never resolves without an access token.
C4_AsStated ==
    xch.pc = "done" =>
        LET token   == Get(xch.body, "access_token")
            message == Get(xch.body, "message")
        IN  IF token # Undefined
            THEN xch.promise = "resolved" /\ xch.value = token
            ELSE /\ xch.promise = "rejected"
                 /\ xch.reason.message =
                       IF message # Undefined THEN message.v
                       ELSE <<"No access token in response">>

\* C4, amended: when the token request completes with a transport error,
\* the promise rejects with that error; when it completes without one, the
\* promise resolves with the body's access_token if the body has a
\* non-empty access_token, and otherwise rejects with an error whose message
\* is the body's message if that is present and not empty, else exactly
\* 'No access token in response'; it never resolves without an access
\* token.
C4_TokenOrError ==
    xch.pc = "done" =>
        LET token   == Get(xch.body, "access_token")
            message == Get(xch.body, "message")
        IN  /\ xch.promise = "resolved" => NonEmptyString(xch.value)
            /\ IF xch.error.present
               THEN xch.promise = "rejected" /\ xch.reason = xch.error
               ELSE IF NonEmptyString(token)
               THEN xch.promise = "resolved" /\ xch.value = token
               ELSE /\ xch.promise = "rejected"
                    /\ xch.reason.message =
                          IF NonEmptyString(message) THEN message.v
                          ELSE <<"No access token in response">>

\* a body with neither access_token nor message, and no transport error
C4_Witness ==
    /\ xch.pc = "done"
    /\ ~xch.error.present
    /\ xch.body = Obj(NoFields)
    /\ xch.promise = "rejected"
    /\ xch.reason.message = <<"No access token in response">>

\* C8, as stated: for request and for the code exchange, a completion
\* callback the caller supplies is invoked exactly once per call, after the
\* promise has been settled, with (error, null) when the promise rejected
\* and (null, result) when it resolved.
C8_AsStated ==
    /\ req.pc = "done" /\ req.cb
          => req.promise # "pending" /\ req.cbCalls = 1
    /\ xch.pc = "done" /\ xch.cb
          => /\ xch.promise # "pending"
             /\ xch.cbCalls = 1
             /\ xch.cbSawSettled
             /\ xch.cbArgs.n = 2
             /\ xch.promise = "rejected"
                   => xch.cbArgs.error = xch.reason /\ xch.cbArgs.token = Null
             /\ xch.promise = "resolved"
                   => ~xch.cbArgs.error.present /\ xch.cbArgs.token = xch.value

\* C8, amended: for the code exchange, a completion callback the caller
\* supplies is invoked exactly once per call, only after the promise has
\* been settled, with the error as its only argument when the promise
\* rejected and with (null, token) when it resolved, so that the settlement
\* and the invocation both occur; the general request operation takes no
\* completion callback and never invokes one.
C8_Callback ==
    /\ req.cbCalls = 0
    /\ xch.pc = "done" =>
          /\ xch.promise # "pending"
          /\ xch.settles = 1
          /\ xch.cbCalls = IF xch.cb THEN 1 ELSE 0
          /\ xch.cb =>
                /\ xch.cbSawSettled
                /\ xch.promise = "rejected"
                      => /\ xch.cbArgs.n = 1
                         /\ xch.cbArgs.error = xch.reason
                /\ xch.promise = "resolved"
                      => /\ xch.cbArgs.n = 2
                         /\ ~xch.cbArgs.error.present
                         /\ xch.cbArgs.token = xch.value

\* an exchange with a callback that resolved, beside a request that was
\* given a callback and completed
C8_Witness ==
    /\ xch.pc = "done" /\ xch.cb
    /\ xch.promise = "resolved"
    /\ xch.cbCalls = 1
    /\ xch.cbArgs.token = Str(<<"tok">>)
    /\ req.pc = "done" /\ req.cb
    /\ req.promise = "rejected"

=============================================================================
